---- MODULE Spec2Model ----
(***************************************************************************)
(* Model of the fractal renderer of fractal-viz: Fractals::draw and its    *)
(* two kernels generate_mandelbrot and generate_julia (src/fractals.rs),   *)
(* stepped pixel by pixel and loop iteration by loop iteration.            *)
(*                                                                         *)
(* f64 values are carried as enclosures <<lo, hi>> on the dyadic grid of   *)
(* 1/ONE: the f64 value v satisfies lo/ONE <= v <= hi/ONE.  Every grid     *)
(* point of the magnitudes used here is an f64, f64 addition of grid       *)
(* points is exact, and f64 rounding is monotone, so rounding a product    *)
(* outward to the grid encloses the f64 product; lo = hi means the f64     *)
(* value is known exactly.  A comparison whose operands' enclosures        *)
(* overlap may go either way.                                              *)
(***************************************************************************)
EXTENDS Integers, Sequences, FiniteSets, TLC

\* ------------------------------------------------------------------ bounds
MaxIter == 3
MaxDim == 2
MaxCalls == 2
MaxTasks == 4
MaxZoomSteps == 1    \* halvings or doublings of the initial zoom the event loop is followed through
MaxOffset == 1       \* largest offset magnitude the event loop is followed to, in halves
MaxDeep == 1066      \* halvings followed when only the wheel is turned

\* ------------------------------------------------------------ f64 on a grid
ONE == 2^10

Pt(k) == <<k, k>>
IsPt(a) == a[1] = a[2]
FromInt(n) == Pt(n * ONE)
Half == Pt(ONE \div 2)
Zero == Pt(0)
Two == Pt(2 * ONE)

Min2(a, b) == IF a <= b THEN a ELSE b
Max2(a, b) == IF a >= b THEN a ELSE b
FloorDiv(p) == p \div ONE
CeilDiv(p) == -((-p) \div ONE)

FAdd(a, b) == <<a[1] + b[1], a[2] + b[2]>>
FSub(a, b) == <<a[1] - b[2], a[2] - b[1]>>
FMul(a, b) ==
    LET p1 == a[1] * b[1]
        p2 == a[1] * b[2]
        p3 == a[2] * b[1]
        p4 == a[2] * b[2]
    IN  <<FloorDiv(Min2(Min2(p1, p2), Min2(p3, p4))),
          CeilDiv(Max2(Max2(p1, p2), Max2(p3, p4)))>>

\* The outcomes a comparison of two enclosed f64 values can have.
LtOutcomes(a, b) == {o \in BOOLEAN : IF o THEN a[1] < b[2] ELSE a[2] >= b[1]}
LeOutcomes(a, b) == {o \in BOOLEAN : IF o THEN a[1] <= b[2] ELSE a[2] > b[1]}

\* i32 division truncates toward zero.
IDiv(a, b) == IF a >= 0 THEN a \div b ELSE -((-a) \div b)

\* ------------------------------------------------------------------ colour
Alpha == 255

\* ((0.0730 * iteration).sin() * 255.0) as u8, and the 0.0460 and 0.0900
\* channels, at the whole iteration counts 0..65 (the cast saturates, so a
\* negative sine gives 0).
SinRed ==
    <<0, 18, 37, 55, 73, 91, 108, 124, 140, 155, 170, 183, 195, 207, 217, 226,
      234, 241, 246, 250, 253, 254, 254, 253, 250, 246, 241, 234, 226, 217, 207,
      196, 183, 170, 156, 141, 125, 108, 91, 74, 56, 37, 19, 0, 0, 0, 0, 0, 0,
      0, 0, 0, 0, 0, 0, 0, 0, 0, 0, 0, 0, 0, 0, 0, 0, 0>>
SinGreen ==
    <<0, 11, 23, 35, 46, 58, 69, 80, 91, 102, 113, 123, 133, 143, 153, 162,
      171, 179, 187, 195, 202, 209, 216, 222, 227, 232, 237, 241, 244, 247, 250,
      252, 253, 254, 254, 254, 254, 252, 251, 248, 245, 242, 238, 234, 229, 223,
      218, 211, 204, 197, 190, 182, 173, 164, 155, 146, 136, 126, 116, 105, 94,
      83, 72, 61, 50, 38>>
SinBlue ==
    <<0, 22, 45, 68, 89, 110, 131, 150, 168, 184, 199, 213, 224, 234, 242, 248,
      252, 254, 254, 252, 248, 242, 233, 223, 212, 198, 183, 166, 148, 129, 108,
      87, 65, 43, 20, 0, 0, 0, 0, 0, 0, 0, 0, 0, 0, 0, 0, 0, 0, 0, 0, 0, 0, 0,
      0, 0, 0, 0, 0, 0, 0, 0, 0, 0, 0, 0>>

\* The Colour the three sines give at a whole iteration count n.
Sines(n) == <<SinRed[n + 1], SinGreen[n + 1], SinBlue[n + 1]>>

\* Colour::lerp, t on the grid: (start * (1.0 - t) + end * t) as u8.
lerp(start, end, t) ==
    [k \in 1..3 |-> (start[k] * (ONE - t) + end[k] * t) \div ONE]

\* generate_julia's colour: the count is whole, so iteration % 1.0 is 0.
JuliaColour(n) == lerp(Sines(n), Sines(n + 1), 0)

\* Lines 111-147 at the escapes the model reaches, keyed by <<iteration,
\* x*x + y*y on the grid>>: the bytes of lerp(c, c2, iteration % 1.0) for
\* iteration + 1 - nu, evaluated in IEEE doubles as the code evaluates it
\* (log(10.0) is ln/ln(10); an argument of log that is <= 0 gives NaN or an
\* infinity, and the casts of NaN give 0).
Smoothed ==
    <<1, 256>> :> <<0, 0, 0>> @@
    <<1, 512>> :> <<0, 0, 0>> @@
    <<1, 1024>> :> <<0, 0, 0>> @@
    <<1, 2048>> :> <<55, 35, 68>> @@
    <<1, 2304>> :> <<64, 41, 79>> @@
    <<1, 2560>> :> <<58, 37, 72>> @@
    <<1, 4096>> :> <<37, 23, 45>> @@
    <<1, 4352>> :> <<52, 33, 64>> @@
    <<1, 4608>> :> <<50, 31, 62>> @@
    <<1, 5120>> :> <<47, 29, 58>> @@
    <<1, 6400>> :> <<40, 25, 49>> @@
    <<1, 6656>> :> <<39, 24, 48>> @@
    <<1, 8192>> :> <<33, 20, 41>> @@
    <<1, 8704>> :> <<31, 20, 39>> @@
    <<1, 9216>> :> <<30, 19, 37>> @@
    <<1, 10240>> :> <<28, 17, 34>> @@
    <<1, 10496>> :> <<27, 17, 33>> @@
    <<1, 12800>> :> <<23, 14, 28>> @@
    <<1, 13312>> :> <<22, 14, 27>> @@
    <<1, 18432>> :> <<33, 21, 42>> @@
    <<2, 320>> :> <<0, 0, 0>> @@
    <<2, 576>> :> <<0, 0, 0>> @@
    <<2, 1280>> :> <<111, 71, 135>> @@
    <<2, 2048>> :> <<73, 46, 89>> @@
    <<2, 4096>> :> <<55, 35, 68>> @@
    <<2, 6400>> :> <<58, 37, 72>> @@
    <<2, 7488>> :> <<54, 34, 66>> @@
    <<2, 10240>> :> <<46, 29, 56>> @@
    <<2, 11520>> :> <<43, 27, 54>> @@
    <<2, 14400>> :> <<39, 24, 48>> @@
    <<2, 16640>> :> <<54, 33, 66>> @@
    <<2, 18496>> :> <<52, 33, 64>> @@
    <<2, 20480>> :> <<50, 31, 62>> @@
    <<2, 27200>> :> <<45, 29, 56>> @@
    <<2, 36864>> :> <<41, 25, 50>> @@
    <<2, 39168>> :> <<40, 25, 49>> @@
    <<2, 40256>> :> <<40, 25, 49>> @@
    <<2, 40960>> :> <<39, 25, 48>> @@
    <<2, 43264>> :> <<39, 24, 48>> @@
    <<2, 46400>> :> <<38, 23, 46>> @@
    <<2, 51200>> :> <<36, 23, 45>> @@
    <<2, 56576>> :> <<35, 22, 43>> @@
    <<2, 65600>> :> <<33, 20, 41>> @@
    <<2, 72000>> :> <<32, 20, 39>> @@
    <<2, 78400>> :> <<31, 19, 38>> @@
    <<2, 83200>> :> <<30, 19, 37>> @@
    <<2, 92160>> :> <<29, 18, 35>> @@
    <<2, 106496>> :> <<27, 17, 33>> @@
    <<2, 108800>> :> <<27, 16, 33>> @@
    <<2, 126208>> :> <<25, 16, 31>> @@
    <<2, 147456>> :> <<24, 14, 29>> @@
    <<3, 1156>> :> <<140, 91, 167>> @@
    <<3, 10240>> :> <<64, 40, 78>> @@
    <<3, 25600>> :> <<65, 41, 80>> @@
    <<3, 36160>> :> <<59, 37, 73>> @@
    <<3, 36324>> :> <<59, 37, 72>>

\* Lines 111-122 at the same escapes: the f64 `iteration + 1.0 - nu`, as NaN,
\* an infinity, or its enclosure <<lo, hi>> on the grid.
SmoothedIteration ==
    <<1, 256>> :> [is |-> "nan", lo |-> 0, hi |-> 0] @@
    <<1, 512>> :> [is |-> "nan", lo |-> 0, hi |-> 0] @@
    <<1, 1024>> :> [is |-> "inf", lo |-> 0, hi |-> 0] @@
    <<1, 2048>> :> [is |-> "finite", lo |-> 3072, hi |-> 3072] @@
    <<1, 2304>> :> [is |-> "finite", lo |-> 2840, hi |-> 2841] @@
    <<1, 2560>> :> [is |-> "finite", lo |-> 2659, hi |-> 2660] @@
    <<1, 4096>> :> [is |-> "finite", lo |-> 2048, hi |-> 2048] @@
    <<1, 4352>> :> [is |-> "finite", lo |-> 1984, hi |-> 1985] @@
    <<1, 4608>> :> [is |-> "finite", lo |-> 1927, hi |-> 1928] @@
    <<1, 5120>> :> [is |-> "finite", lo |-> 1827, hi |-> 1828] @@
    <<1, 6400>> :> [is |-> "finite", lo |-> 1635, hi |-> 1636] @@
    <<1, 6656>> :> [is |-> "finite", lo |-> 1604, hi |-> 1605] @@
    <<1, 8192>> :> [is |-> "finite", lo |-> 1448, hi |-> 1449] @@
    <<1, 8704>> :> [is |-> "finite", lo |-> 1406, hi |-> 1407] @@
    <<1, 9216>> :> [is |-> "finite", lo |-> 1367, hi |-> 1368] @@
    <<1, 10240>> :> [is |-> "finite", lo |-> 1298, hi |-> 1299] @@
    <<1, 10496>> :> [is |-> "finite", lo |-> 1282, hi |-> 1283] @@
    <<1, 12800>> :> [is |-> "finite", lo |-> 1161, hi |-> 1162] @@
    <<1, 13312>> :> [is |-> "finite", lo |-> 1138, hi |-> 1139] @@
    <<1, 18432>> :> [is |-> "finite", lo |-> 962, hi |-> 963] @@
    <<2, 320>> :> [is |-> "nan", lo |-> 0, hi |-> 0] @@
    <<2, 576>> :> [is |-> "nan", lo |-> 0, hi |-> 0] @@
    <<2, 1280>> :> [is |-> "finite", lo |-> 5770, hi |-> 5771] @@
    <<2, 2048>> :> [is |-> "finite", lo |-> 4096, hi |-> 4096] @@
    <<2, 4096>> :> [is |-> "finite", lo |-> 3072, hi |-> 3072] @@
    <<2, 6400>> :> [is |-> "finite", lo |-> 2659, hi |-> 2660] @@
    <<2, 7488>> :> [is |-> "finite", lo |-> 2538, hi |-> 2539] @@
    <<2, 10240>> :> [is |-> "finite", lo |-> 2322, hi |-> 2323] @@
    <<2, 11520>> :> [is |-> "finite", lo |-> 2248, hi |-> 2249] @@
    <<2, 14400>> :> [is |-> "finite", lo |-> 2118, hi |-> 2119] @@
    <<2, 16640>> :> [is |-> "finite", lo |-> 2039, hi |-> 2040] @@
    <<2, 18496>> :> [is |-> "finite", lo |-> 1984, hi |-> 1985] @@
    <<2, 20480>> :> [is |-> "finite", lo |-> 1933, hi |-> 1934] @@
    <<2, 27200>> :> [is |-> "finite", lo |-> 1799, hi |-> 1800] @@
    <<2, 36864>> :> [is |-> "finite", lo |-> 1668, hi |-> 1669] @@
    <<2, 39168>> :> [is |-> "finite", lo |-> 1644, hi |-> 1645] @@
    <<2, 40256>> :> [is |-> "finite", lo |-> 1633, hi |-> 1634] @@
    <<2, 40960>> :> [is |-> "finite", lo |-> 1626, hi |-> 1627] @@
    <<2, 43264>> :> [is |-> "finite", lo |-> 1604, hi |-> 1605] @@
    <<2, 46400>> :> [is |-> "finite", lo |-> 1577, hi |-> 1578] @@
    <<2, 51200>> :> [is |-> "finite", lo |-> 1539, hi |-> 1540] @@
    <<2, 56576>> :> [is |-> "finite", lo |-> 1502, hi |-> 1503] @@
    <<2, 65600>> :> [is |-> "finite", lo |-> 1448, hi |-> 1449] @@
    <<2, 72000>> :> [is |-> "finite", lo |-> 1415, hi |-> 1416] @@
    <<2, 78400>> :> [is |-> "finite", lo |-> 1386, hi |-> 1387] @@
    <<2, 83200>> :> [is |-> "finite", lo |-> 1366, hi |-> 1367] @@
    <<2, 92160>> :> [is |-> "finite", lo |-> 1332, hi |-> 1333] @@
    <<2, 106496>> :> [is |-> "finite", lo |-> 1285, hi |-> 1286] @@
    <<2, 108800>> :> [is |-> "finite", lo |-> 1279, hi |-> 1280] @@
    <<2, 126208>> :> [is |-> "finite", lo |-> 1232, hi |-> 1233] @@
    <<2, 147456>> :> [is |-> "finite", lo |-> 1185, hi |-> 1186] @@
    <<3, 1156>> :> [is |-> "finite", lo |-> 7695, hi |-> 7696] @@
    <<3, 10240>> :> [is |-> "finite", lo |-> 3346, hi |-> 3347] @@
    <<3, 25600>> :> [is |-> "finite", lo |-> 2851, hi |-> 2852] @@
    <<3, 36160>> :> [is |-> "finite", lo |-> 2700, hi |-> 2701] @@
    <<3, 36324>> :> [is |-> "finite", lo |-> 2699, hi |-> 2700]

\* generate_mandelbrot's colour: the smoothed count when the loop stopped
\* before max_iterations, the whole count otherwise.
MandelbrotColour(n, max_iterations, norm) ==
    IF n < max_iterations
    THEN Smoothed[<<n, norm[1]>>]
    ELSE lerp(Sines(n), Sines(n + 1), 0)

\* Lines 109-122: the f64 iteration that the colouring of lines 141-147 reads.
MandelbrotCount(n, max_iterations, norm) ==
    IF n < max_iterations
    THEN SmoothedIteration[<<n, norm[1]>>]
    ELSE [is |-> "finite", lo |-> n * ONE, hi |-> n * ONE]

\* ----------------------------------------------------------------- kernels
\* Mutant: the centred pixel is not scaled by zoom.
MandelbrotPlane_NoZoom(xp, yp, w, h, zm, ox, oy) ==
    <<FAdd(FromInt(xp - IDiv(w, 2)), ox), FAdd(FromInt(yp - IDiv(h, 2)), oy)>>

\* Lines 94-95: the plane coordinate <<real, imaginary>> of a pixel.
MandelbrotPlane(xp, yp, w, h, zm, ox, oy) ==
    <<FAdd(FMul(FromInt(xp - IDiv(w, 2)), zm), ox),
      FAdd(FMul(FromInt(yp - IDiv(h, 2)), zm), oy)>>

\* Mutant: the frame is centred on width / 2.0, not on the pixel width / 2.
JuliaPlane_HalfPixel(xp, yp, w, h, zm, ox, oy) ==
    <<FAdd(FMul(FSub(FromInt(xp), FMul(FromInt(w), Half)), zm), ox),
      FAdd(FMul(FSub(FromInt(yp), FMul(FromInt(h), Half)), zm), oy)>>

\* Lines 48-49.
JuliaPlane(xp, yp, w, h, zm, ox, oy) ==
    <<FAdd(FMul(FromInt(xp - IDiv(w, 2)), zm), ox),
      FAdd(FMul(FromInt(yp - IDiv(h, 2)), zm), oy)>>

\* Mutant: the budget test is off by one.
MandelbrotWhile_OffByOne(norm, rr, it, max_iterations) ==
    {o /\ it <= max_iterations : o \in LeOutcomes(norm, rr)}

\* Line 102: the values `x2 + y2 <= r && iteration < max_iterations` can take.
MandelbrotWhile(norm, rr, it, max_iterations) ==
    {o /\ it < max_iterations : o \in LeOutcomes(norm, rr)}

\* Line 52: `real*real + imaginary*imaginary < r && iteration < max_iterations`.
JuliaWhile(norm, rr, it, max_iterations) ==
    {o /\ it < max_iterations : o \in LtOutcomes(norm, rr)}

\* Mutant: x is updated first and y reads the new x.
MandelbrotBody_XFirst(xx, yy, xx2, yy2, re, im) ==
    LET nx == FAdd(FSub(xx2, yy2), re)
        ny == FAdd(FMul(FMul(Two, nx), yy), im)
    IN  [x |-> nx, y |-> ny, x2 |-> FMul(nx, nx), y2 |-> FMul(ny, ny)]

\* Lines 103-106: y is updated first, from the old x; x from the old squares.
MandelbrotBody(xx, yy, xx2, yy2, re, im) ==
    LET ny == FAdd(FMul(FMul(Two, xx), yy), im)
        nx == FAdd(FSub(xx2, yy2), re)
    IN  [x |-> nx, y |-> ny, x2 |-> FMul(nx, nx), y2 |-> FMul(ny, ny)]

\* Mutant: real is overwritten before imaginary reads it (no xtemp).
JuliaBody_NoTemp(re, im, c) ==
    LET nre == FAdd(FSub(FMul(re, re), FMul(im, im)), c[1])
    IN  [real |-> nre, imaginary |-> FAdd(FMul(FMul(Two, nre), im), c[2])]

\* Lines 53-55: xtemp holds the new real while imaginary still reads the old.
JuliaBody(re, im, c) ==
    LET xtemp == FAdd(FSub(FMul(re, re), FMul(im, im)), c[1])
    IN  [real |-> xtemp, imaginary |-> FAdd(FMul(FMul(Two, re), im), c[2])]

Norm(re, im) == FAdd(FMul(re, re), FMul(im, im))

\* Mutant: the slot index without the 4 bytes per pixel.
PixelIdx_Unscaled(yp, xp, w) == yp * w + xp

\* Lines 79 and 152.
PixelIdx(yp, xp, w) == (yp * w + xp) * 4

\* pixels[pixel_idx..pixel_idx+4] is a slice of the buffer.
SliceInBounds(buf, idx) == idx + 4 <= Len(buf)

\* Mutant: the slot is blended with what the buffer held.
CopyFromSlice_Blend(buf, idx, rgb) ==
    [i \in 1..Len(buf) |->
        IF i \in (idx + 1)..(idx + 4)
        THEN (buf[i] + <<rgb[1], rgb[2], rgb[3], Alpha>>[i - idx]) \div 2
        ELSE buf[i]]

\* copy_from_slice(&[c.red, c.green, c.blue, a]) at pixel_idx.
CopyFromSlice(buf, idx, rgb) ==
    [i \in 1..Len(buf) |->
        IF i \in (idx + 1)..(idx + 4)
        THEN <<rgb[1], rgb[2], rgb[3], Alpha>>[i - idx]
        ELSE buf[i]]

\* --------------------------------------------------------- the inputs drawn
\* escape_radius values: negative, zero, below one, one, two and three.
Radii == {Pt(-2 * ONE), Zero, Half, Pt(ONE), Two, Pt(3 * ONE)}
\* Julia constants c.
JuliaCs == {<<Zero, Zero>>, <<Pt(-(ONE \div 2)), Half>>}
Zooms == {Half, Pt(ONE)}
Offsets == {Zero, Two}
\* How many pixel slots the buffer handed to draw has beyond width*height.
SlotDeltas == {-1, 0, 1}

Variants ==
    [kind : {"Mandelbrot"}, max_iterations : 0..MaxIter, escape_radius : Radii,
     c : {<<Zero, Zero>>}]
    \cup
    [kind : {"Julia"}, max_iterations : 0..MaxIter, escape_radius : Radii,
     c : JuliaCs]

\* ------------------------------------------------------------------- state
VARIABLES
    fractal,      \* self: the Fractals value draw is called on
    width,        \* draw's arguments
    height,
    zoom,
    offset_x,
    offset_y,
    pixels,       \* the caller's buffer, byte i of the slice at pixels[i + 1]
    pc,           \* where the call stands
    calls,        \* draw calls started so far
    r,            \* escape_radius * escape_radius
    y_pixel,
    x_pixel,
    real,
    imaginary,
    x,
    y,
    x2,
    y2,
    iteration,
    log,          \* the slot writes of the current call, in order
    first,        \* the buffer as the first call left it
    tasks,        \* the locals of each pixel task when the bodies are fanned out
    before,       \* the gradient of the call before the caller changed it
    drag_select_start,          \* main's locals that outlive one event
    drag_select_end,
    flag_render_drag_select,
    flag_generate_new_fractal,
    flag_fractal_change,
    freeze_frame,
    flags,        \* the Flags value the settings panel writes to
    window_open,  \* Gui::window_open
    mouse_down,   \* whether the input helper holds the left button as down
    event         \* the input the last handler ran on

vars == <<fractal, width, height, zoom, offset_x, offset_y, pixels, pc, calls,
          r, y_pixel, x_pixel, real, imaginary, x, y, x2, y2, iteration, log,
          first, tasks, before, drag_select_start, drag_select_end,
          flag_render_drag_select, flag_generate_new_fractal,
          flag_fractal_change, freeze_frame, flags, window_open, mouse_down,
          event>>

\* The state of the event loop and of the settings panel.
shell == <<drag_select_start, drag_select_end, flag_render_drag_select,
           flag_generate_new_fractal, flag_fractal_change, freeze_frame,
           flags, window_open, mouse_down, event>>

\* What the sequential call never touches.
extra == <<tasks, before, shell>>

args == <<fractal, width, height, zoom, offset_x, offset_y>>
locals == <<real, imaginary, x, y, x2, y2, iteration>>

Filled(n, b) == [i \in 1..n |-> b]

InitLocals ==
    /\ pc = "idle"
    /\ calls = 0
    /\ r = Zero
    /\ y_pixel = 0
    /\ x_pixel = 0
    /\ real = Zero
    /\ imaginary = Zero
    /\ x = Zero
    /\ y = Zero
    /\ x2 = Zero
    /\ y2 = Zero
    /\ iteration = 0
    /\ log = <<>>
    /\ first = <<>>
    /\ tasks = <<>>
    /\ before = ""
    /\ drag_select_start = <<0, 0>>
    /\ drag_select_end = <<0, 0>>
    /\ flag_render_drag_select = FALSE
    /\ flag_generate_new_fractal = TRUE
    /\ flag_fractal_change = TRUE
    /\ freeze_frame = <<>>
    /\ flags = [reset |-> FALSE, generate_fractal |-> FALSE]
    /\ window_open = TRUE
    /\ mouse_down = FALSE
    /\ event = <<>>

Init ==
    /\ fractal \in Variants
    /\ width \in 0..MaxDim
    /\ height \in 0..MaxDim
    /\ zoom \in Zooms
    /\ offset_x \in Offsets
    /\ offset_y \in Offsets
    /\ \E d \in SlotDeltas :
          /\ width * height + d >= 0
          /\ pixels = Filled(4 * (width * height + d), 0)
    /\ InitLocals

\* ----------------------------------------------------------------- actions
\* The call returns: control is back with the caller.
Return ==
    /\ pc' = "returned"
    /\ first' = IF calls = 1 THEN pixels' ELSE first
    /\ y_pixel' = 0
    /\ x_pixel' = 0
    /\ real' = Zero
    /\ imaginary' = Zero
    /\ x' = Zero
    /\ y' = Zero
    /\ x2' = Zero
    /\ y2' = Zero
    /\ iteration' = 0

\* `for y_pixel in 0..height { for x_pixel in 0..width {`: enter the first body
\* at pixel (0, 0), or fall through both loops.
EnterLoops(body) ==
    IF height > 0 /\ width > 0
    THEN /\ pc' = body
         /\ y_pixel' = 0
         /\ x_pixel' = 0
         /\ UNCHANGED <<locals, first>>
    ELSE Return

\* The end of one loop body: the next x_pixel, the next row, or the end.
Advance(body) ==
    IF x_pixel + 1 < width
    THEN /\ pc' = body
         /\ x_pixel' = x_pixel + 1
         /\ UNCHANGED <<y_pixel, locals, first>>
    ELSE IF y_pixel + 1 < height
    THEN /\ pc' = body
         /\ x_pixel' = 0
         /\ y_pixel' = y_pixel + 1
         /\ UNCHANGED <<locals, first>>
    ELSE Return

\* Fractals::draw: match self and call the kernel.
Draw ==
    /\ pc \in {"idle", "returned"}
    /\ calls < MaxCalls
    /\ calls' = calls + 1
    /\ pc' = IF fractal.kind = "Mandelbrot" THEN "mandelbrot" ELSE "julia"
    /\ log' = <<>>
    /\ UNCHANGED <<args, pixels, r, y_pixel, x_pixel, locals, first>>
    /\ UNCHANGED extra

\* Between two draws the event loop writes into the frame (the zoom box is
\* drawn in bytes of 255).
Overdraw ==
    /\ pc = "returned"
    /\ calls < MaxCalls
    /\ pixels # Filled(Len(pixels), 255)
    /\ pixels' = Filled(Len(pixels), 255)
    /\ pc' = "idle"
    /\ UNCHANGED <<args, calls, r, y_pixel, x_pixel, locals, log, first>>
    /\ UNCHANGED extra

\* generate_mandelbrot, line 88, and the loop headers.
MandelbrotEnter ==
    /\ pc = "mandelbrot"
    /\ r' = FMul(fractal.escape_radius, fractal.escape_radius)
    /\ UNCHANGED <<args, pixels, calls, log>>
    /\ EnterLoops("m_pixel")
    /\ UNCHANGED extra

\* Lines 94-101.
MandelbrotPixel ==
    /\ pc = "m_pixel"
    /\ LET p == MandelbrotPlane(x_pixel, y_pixel, width, height, zoom,
                                offset_x, offset_y)
       IN  /\ real' = p[1]
           /\ imaginary' = p[2]
    /\ x' = Zero
    /\ y' = Zero
    /\ iteration' = 0
    /\ x2' = Zero
    /\ y2' = Zero
    /\ pc' = "m_while"
    /\ UNCHANGED <<args, pixels, calls, r, y_pixel, x_pixel, log, first>>
    /\ UNCHANGED extra

\* Lines 102-108, one pass of the loop body.
MandelbrotIterate ==
    /\ pc = "m_while"
    /\ MandelbrotWhile(FAdd(x2, y2), r, iteration, fractal.max_iterations) = {TRUE}
    /\ LET b == MandelbrotBody(x, y, x2, y2, real, imaginary)
       IN  /\ x' = b.x
           /\ y' = b.y
           /\ x2' = b.x2
           /\ y2' = b.y2
    /\ iteration' = iteration + 1
    /\ UNCHANGED <<args, pixels, pc, calls, r, y_pixel, x_pixel, real, imaginary,
                   log, first>>
    /\ UNCHANGED extra

\* Line 102, the condition is false: the loop is left.
MandelbrotLeave ==
    /\ pc = "m_while"
    /\ MandelbrotWhile(FAdd(x2, y2), r, iteration, fractal.max_iterations) = {FALSE}
    /\ pc' = "m_colour"
    /\ UNCHANGED <<args, pixels, calls, r, y_pixel, x_pixel, locals, log, first>>
    /\ UNCHANGED extra

\* Lines 109-153 with the slice in bounds: colour the pixel and write its slot.
MandelbrotWrite ==
    /\ pc = "m_colour"
    /\ iteration < fractal.max_iterations => IsPt(Norm(x, y))
    /\ LET rgb == MandelbrotColour(iteration, fractal.max_iterations, Norm(x, y))
           pixel_idx == PixelIdx(y_pixel, x_pixel, width)
       IN  /\ SliceInBounds(pixels, pixel_idx)
           /\ pixels' = CopyFromSlice(pixels, pixel_idx, rgb)
           /\ log' = Append(log, [row |-> y_pixel, col |-> x_pixel,
                                  at |-> pixel_idx, rgb |-> rgb,
                                  count |-> iteration])
    /\ Advance("m_pixel")
    /\ UNCHANGED <<args, calls, r>>
    /\ UNCHANGED extra

\* Line 153 with the slice out of bounds: the index panics.
MandelbrotPanic ==
    /\ pc = "m_colour"
    /\ ~SliceInBounds(pixels, PixelIdx(y_pixel, x_pixel, width))
    /\ pc' = "panicked"
    /\ UNCHANGED <<args, pixels, calls, r, y_pixel, x_pixel, locals, log, first>>
    /\ UNCHANGED extra

\* generate_julia, lines 42-44 with the assertion holding, and the loop headers.
JuliaEnter ==
    /\ pc = "julia"
    /\ fractal.escape_radius[1] > 0
    /\ r' = FMul(fractal.escape_radius, fractal.escape_radius)
    /\ UNCHANGED <<args, pixels, calls, log>>
    /\ EnterLoops("j_pixel")
    /\ UNCHANGED extra

\* Line 42: assert!(escape_radius > 0.0) fails.
JuliaAssertFails ==
    /\ pc = "julia"
    /\ ~(fractal.escape_radius[1] > 0)
    /\ pc' = "panicked"
    /\ UNCHANGED <<args, pixels, calls, r, y_pixel, x_pixel, locals, log, first>>
    /\ UNCHANGED extra

\* Lines 48-51.
JuliaPixel ==
    /\ pc = "j_pixel"
    /\ LET p == JuliaPlane(x_pixel, y_pixel, width, height, zoom,
                           offset_x, offset_y)
       IN  /\ real' = p[1]
           /\ imaginary' = p[2]
    /\ iteration' = 0
    /\ pc' = "j_while"
    /\ UNCHANGED <<args, pixels, calls, r, y_pixel, x_pixel, x, y, x2, y2, log,
                   first>>
    /\ UNCHANGED extra

\* Lines 52-57, one pass of the loop body.
JuliaIterate ==
    /\ pc = "j_while"
    /\ JuliaWhile(Norm(real, imaginary), r, iteration, fractal.max_iterations)
         = {TRUE}
    /\ LET b == JuliaBody(real, imaginary, fractal.c)
       IN  /\ real' = b.real
           /\ imaginary' = b.imaginary
    /\ iteration' = iteration + 1
    /\ UNCHANGED <<args, pixels, pc, calls, r, y_pixel, x_pixel, x, y, x2, y2,
                   log, first>>
    /\ UNCHANGED extra

\* Line 52, the condition is false: the loop is left.
JuliaLeave ==
    /\ pc = "j_while"
    /\ JuliaWhile(Norm(real, imaginary), r, iteration, fractal.max_iterations)
         = {FALSE}
    /\ pc' = "j_colour"
    /\ UNCHANGED <<args, pixels, calls, r, y_pixel, x_pixel, locals, log, first>>
    /\ UNCHANGED extra

\* Lines 58-80 with the slice in bounds.
JuliaWrite ==
    /\ pc = "j_colour"
    /\ LET rgb == JuliaColour(iteration)
           pixel_idx == PixelIdx(y_pixel, x_pixel, width)
       IN  /\ SliceInBounds(pixels, pixel_idx)
           /\ pixels' = CopyFromSlice(pixels, pixel_idx, rgb)
           /\ log' = Append(log, [row |-> y_pixel, col |-> x_pixel,
                                  at |-> pixel_idx, rgb |-> rgb,
                                  count |-> iteration])
    /\ Advance("j_pixel")
    /\ UNCHANGED <<args, calls, r>>
    /\ UNCHANGED extra

\* Line 80 with the slice out of bounds.
JuliaPanic ==
    /\ pc = "j_colour"
    /\ ~SliceInBounds(pixels, PixelIdx(y_pixel, x_pixel, width))
    /\ pc' = "panicked"
    /\ UNCHANGED <<args, pixels, calls, r, y_pixel, x_pixel, locals, log, first>>
    /\ UNCHANGED extra

Next ==
    \/ Draw
    \/ Overdraw
    \/ MandelbrotEnter
    \/ MandelbrotPixel
    \/ MandelbrotIterate
    \/ MandelbrotLeave
    \/ MandelbrotWrite
    \/ MandelbrotPanic
    \/ JuliaEnter
    \/ JuliaAssertFails
    \/ JuliaPixel
    \/ JuliaIterate
    \/ JuliaLeave
    \/ JuliaWrite
    \/ JuliaPanic

Spec == Init /\ [][Next]_vars

\* ------------------------------------------------------------------ claims
\* The buffer is a PixelBuffer for the frame: width * height * 4 bytes.
Fits == Len(pixels) = width * height * 4

Slot(buf, at) == <<buf[at + 1], buf[at + 2], buf[at + 3], buf[at + 4]>>

\* C1: when draw returns on a buffer of width*height*4 bytes, every pixel
\* (row, column) of the frame has been written exactly once in this call, at
\* offset (row*width + column)*4, and its slot holds the R, G, B computed for
\* that pixel followed by alpha 255; with such a buffer no slot index panics.
C1_EveryPixelWritten ==
    Fits =>
      /\ pc = "panicked" => fractal.kind = "Julia" /\ log = <<>>
      /\ pc = "returned" =>
           /\ Len(log) = width * height
           /\ \A row \in 0..(height - 1) : \A col \in 0..(width - 1) :
                \E i \in 1..Len(log) :
                  /\ log[i].row = row
                  /\ log[i].col = col
                  /\ log[i].at = (row * width + col) * 4
                  /\ \A k \in 1..3 : log[i].rgb[k] \in 0..255
                  /\ Slot(pixels, (row * width + col) * 4)
                       = <<log[i].rgb[1], log[i].rgb[2], log[i].rgb[3], 255>>

C1_Witness ==
    /\ Fits
    /\ pc = "returned"
    /\ width = 2
    /\ height = 2
    /\ Len(log) = 4
    /\ fractal.kind = "Mandelbrot"

\* C2: with a buffer of width*height*4 bytes, every later draw with the same
\* variant, width, height, zoom and offset leaves the buffer byte for byte as
\* the first draw left it, whether it ran on the buffer as the first draw left
\* it or on one the caller had overwritten in between.
C2_Deterministic ==
    Fits /\ pc = "returned" /\ calls >= 2 => pixels = first

C2_Witness ==
    /\ Fits
    /\ pc = "returned"
    /\ calls = 2
    /\ width * height >= 2
    /\ pixels = first
    /\ \E i \in 1..Len(pixels) : pixels[i] \notin {0, 255}

\* C3 (as claimed): with a buffer whose length differs from width*height*4
\* the call fails before any write, so at no point of the call has a slot of
\* the buffer been written.
C3_MismatchFailsBeforeAnyWrite ==
    ~Fits => log = <<>>

\* C4 (as claimed): with escape_radius <= 0 neither kernel gets past its
\* entry: no pixel is mapped, iterated with the invalid radius or written.
C4_NonPositiveRadiusRefused ==
    fractal.escape_radius[2] <= 0 =>
      /\ pc \notin {"m_pixel", "m_while", "m_colour", "j_pixel", "j_while", "j_colour"}
      /\ log = <<>>

\* The plane coordinate of the pixel the call is at, as each kernel maps it.
HereMandelbrot ==
    MandelbrotPlane(x_pixel, y_pixel, width, height, zoom, offset_x, offset_y)
HereJulia ==
    JuliaPlane(x_pixel, y_pixel, width, height, zoom, offset_x, offset_y)

\* The kernel has just mapped its pixel and not yet iterated.
JustMapped == pc \in {"m_while", "j_while"} /\ iteration = 0

RECURSIVE MandelbrotOrbit(_, _)
MandelbrotOrbit(c, k) ==
    IF k = 0
    THEN <<Zero, Zero>>
    ELSE LET z == MandelbrotOrbit(c, k - 1)
         IN  <<FAdd(FSub(FMul(z[1], z[1]), FMul(z[2], z[2])), c[1]),
               FAdd(FMul(FMul(Two, z[1]), z[2]), c[2])>>

\* |z|^2 > rr for certain.
Outside(z, rr) == Norm(z[1], z[2])[1] > rr[2]
\* |z|^2 < rr for certain.
Inside(z, rr) == Norm(z[1], z[2])[2] < rr[1]

\* What C6 says of a state.
C6_State ==
    /\ pc = "m_while" =>
         /\ iteration \in 0..fractal.max_iterations
         /\ <<x, y>> = MandelbrotOrbit(<<real, imaginary>>, iteration)
         /\ Cardinality(MandelbrotWhile(FAdd(x2, y2), r, iteration,
                                        fractal.max_iterations)) = 1
    /\ pc = "m_colour" =>
         /\ iteration \in 0..fractal.max_iterations
         /\ \A k \in 0..(iteration - 1) :
              ~Outside(MandelbrotOrbit(<<real, imaginary>>, k), r)
         /\ iteration < fractal.max_iterations
              => Outside(MandelbrotOrbit(<<real, imaginary>>, iteration), r)
    /\ \A i \in 1..Len(log) :
         fractal.kind = "Mandelbrot" /\ log[i].count = fractal.max_iterations
           => log[i].rgb = Sines(fractal.max_iterations)

\* C6: the Mandelbrot loop ends for every pixel: each pass adds one to
\* iteration, which never exceeds max_iterations, and in every state at the
\* loop head exactly one of "run the body" and "leave" is taken.  When the loop
\* is left, iteration n is in 0..max_iterations, no iterate z_k with k < n
\* has |z_k|^2 > r, and if n < max_iterations then |z_n|^2 > r; a pixel whose
\* count is max_iterations is coloured from that whole count, unsmoothed.
C6_MandelbrotLoop ==
    /\ []C6_State
    /\ [][pc = "m_while" /\ pc' = "m_while"
            => iteration' = iteration + 1
               /\ iteration' <= fractal.max_iterations]_vars

C6_Witness ==
    /\ pc = "m_colour"
    /\ fractal.max_iterations = 3
    /\ iteration = 2
    /\ Outside(<<x, y>>, r)
    /\ ~Outside(MandelbrotOrbit(<<real, imaginary>>, 1), r)

\* C7: when the Mandelbrot loop is left with max_iterations >= 1 and
\* escape_radius >= 2, the pixel at plane point (0,0) has iteration =
\* max_iterations; with escape_radius = 2 the pixel at plane point (2,2) has
\* left the loop with |z|^2 > r and iteration (the loop count) at most 1.
C7_Membership ==
    pc = "m_colour" /\ fractal.max_iterations >= 1 =>
      /\ real = Zero /\ imaginary = Zero /\ fractal.escape_radius[1] >= 2 * ONE
           => iteration = fractal.max_iterations
      /\ real = Two /\ imaginary = Two /\ fractal.escape_radius = Two
           => iteration <= 1 /\ Outside(<<x, y>>, r)

C7_Witness ==
    /\ pc = "m_colour"
    /\ real = Zero
    /\ imaginary = Zero
    /\ fractal.escape_radius = Pt(3 * ONE)
    /\ fractal.max_iterations = 3
    /\ iteration = 3

C7_WitnessEscape ==
    /\ pc = "m_colour"
    /\ real = Two
    /\ imaginary = Two
    /\ fractal.escape_radius = Two
    /\ fractal.max_iterations = 3
    /\ iteration = 1

\* C8 (as claimed): at the head of the Julia loop, the continue-or-stop
\* decision the Julia test makes is the one the Mandelbrot test makes for the
\* same |z|^2, r, iteration and max_iterations.
C8_SameEscapeTest ==
    pc = "j_while" =>
      JuliaWhile(Norm(real, imaginary), r, iteration, fractal.max_iterations)
        = MandelbrotWhile(Norm(real, imaginary), r, iteration,
                          fractal.max_iterations)

\* z_k of z <- z^2 from z_0 = z.
RECURSIVE SquareOrbit(_, _)
SquareOrbit(z, k) ==
    IF k = 0
    THEN z
    ELSE LET w == SquareOrbit(z, k - 1)
         IN  <<FSub(FMul(w[1], w[1]), FMul(w[2], w[2])),
               FMul(FMul(Two, w[1]), w[2])>>

JuliaAtOrigin == fractal.kind = "Julia" /\ fractal.c = <<Zero, Zero>>

ScenarioInit ==
    /\ fractal = [kind |-> "Mandelbrot", max_iterations |-> 50,
                  escape_radius |-> Two, c |-> <<Zero, Zero>>]
    /\ width = 4
    /\ height = 4
    /\ zoom = <<10, 11>>
    /\ offset_x = Zero
    /\ offset_y = Zero
    /\ pixels = Filled(64, 0)
    /\ InitLocals

ScenarioNext ==
    \/ Draw
    \/ Overdraw
    \/ MandelbrotEnter
    \/ MandelbrotPixel
    \/ MandelbrotIterate
    \/ MandelbrotLeave
    \/ MandelbrotWrite

Scenario == ScenarioInit /\ [][ScenarioNext]_vars

Corner == x_pixel \in {0, 3} /\ y_pixel \in {0, 3}
Centre == x_pixel \in {1, 2} /\ y_pixel \in {1, 2}

\* C10 (as claimed): in the scenario, when the loop is left at a centre pixel
\* iteration is 50 and at a corner pixel iteration is below 10.
C10_CornersEscape ==
    pc = "m_colour" =>
      /\ Centre => iteration = 50
      /\ Corner => iteration < 10

\* C10 (amended): in the scenario every pixel, the four corners included,
\* leaves the loop with iteration = 50 and |z|^2 below r: at zoom 0.01 the
\* whole frame lies within 0.03 of the origin, inside the set.  The frame the
\* call returns is 16 slots of one colour with alpha 255.
C10_NoPixelEscapes ==
    /\ pc = "m_colour" => iteration = 50 /\ Inside(<<x, y>>, r)
    /\ pc \in {"m_while", "m_colour"} =>
         /\ real[1] >= -22 /\ real[2] <= 11
         /\ imaginary[1] >= -22 /\ imaginary[2] <= 11
    /\ pc = "returned" =>
         /\ Len(log) = 16
         /\ \A i \in 1..16 : log[i].count = 50
         /\ \A i \in 0..15 :
              Slot(pixels, 4 * i) = <<Sines(50)[1], Sines(50)[2], Sines(50)[3], 255>>

C10_Witness ==
    /\ pc = "m_colour"
    /\ x_pixel = 3
    /\ y_pixel = 0
    /\ iteration = 50
    /\ Len(log) = 3

\* ------------------------------------------- the loop bodies as pixel tasks
\* The body of the two `for` loops (lines 47-81, 92-154) declares every local
\* inside itself: one task per pixel runs that body on locals of its own, and
\* the tasks are stepped in any order.  The sequential call runs first and
\* leaves its buffer in `first`; the tasks then fill a fresh buffer.
TaskIds == 0..(width * height - 1)

\* The pixel of task p, in the row-major order of the loops.
TaskRow(p) == p \div width
TaskCol(p) == p % width

TaskVariants ==
    {v \in Variants : v.escape_radius = Two /\ v.max_iterations = MaxIter - 1}

TasksInit ==
    /\ fractal \in TaskVariants
    /\ width \in 1..MaxDim
    /\ height \in 1..MaxDim
    /\ width * height <= MaxTasks
    /\ zoom \in Zooms
    /\ offset_x \in Offsets
    /\ offset_y \in Offsets
    /\ pixels = Filled(4 * width * height, 0)
    /\ InitLocals

\* The bodies are handed out: every task at the top of its body, the buffer
\* fresh, the parameters and r as the call holds them.
Fork ==
    /\ pc = "returned"
    /\ pixels' = Filled(Len(pixels), 0)
    /\ tasks' = [p \in TaskIds |->
                   [pc |-> "pixel", real |-> Zero, imaginary |-> Zero,
                    x |-> Zero, y |-> Zero, x2 |-> Zero, y2 |-> Zero,
                    iteration |-> 0]]
    /\ log' = <<>>
    /\ pc' = "forked"
    /\ UNCHANGED <<args, calls, r, y_pixel, x_pixel, locals, first>>
    /\ UNCHANGED <<before, shell>>

\* Mutant: iteration is a counter the tasks share, not reset per pixel.
TaskPixel_SharedCounter(p) ==
    /\ pc = "forked"
    /\ tasks[p].pc = "pixel"
    /\ LET at == IF fractal.kind = "Mandelbrot"
                 THEN MandelbrotPlane(TaskCol(p), TaskRow(p), width, height,
                                      zoom, offset_x, offset_y)
                 ELSE JuliaPlane(TaskCol(p), TaskRow(p), width, height,
                                 zoom, offset_x, offset_y)
       IN  tasks' = [tasks EXCEPT ![p] =
                       [pc |-> "while", real |-> at[1], imaginary |-> at[2],
                        x |-> Zero, y |-> Zero, x2 |-> Zero, y2 |-> Zero,
                        iteration |-> Len(log)]]
    /\ UNCHANGED <<args, pixels, pc, calls, r, y_pixel, x_pixel, locals, log,
                   first>>
    /\ UNCHANGED <<before, shell>>

\* Lines 48-51 and 94-101 in task p.
TaskPixel(p) ==
    /\ pc = "forked"
    /\ tasks[p].pc = "pixel"
    /\ LET at == IF fractal.kind = "Mandelbrot"
                 THEN MandelbrotPlane(TaskCol(p), TaskRow(p), width, height,
                                      zoom, offset_x, offset_y)
                 ELSE JuliaPlane(TaskCol(p), TaskRow(p), width, height,
                                 zoom, offset_x, offset_y)
       IN  tasks' = [tasks EXCEPT ![p] =
                       [pc |-> "while", real |-> at[1], imaginary |-> at[2],
                        x |-> Zero, y |-> Zero, x2 |-> Zero, y2 |-> Zero,
                        iteration |-> 0]]
    /\ UNCHANGED <<args, pixels, pc, calls, r, y_pixel, x_pixel, locals, log,
                   first>>
    /\ UNCHANGED <<before, shell>>

\* Lines 52 and 102 on the locals of a task.
TaskWhile(t) ==
    IF fractal.kind = "Mandelbrot"
    THEN MandelbrotWhile(FAdd(t.x2, t.y2), r, t.iteration, fractal.max_iterations)
    ELSE JuliaWhile(Norm(t.real, t.imaginary), r, t.iteration,
                    fractal.max_iterations)

\* Lines 53-56 and 103-107 in task p.
TaskIterate(p) ==
    /\ pc = "forked"
    /\ tasks[p].pc = "while"
    /\ TaskWhile(tasks[p]) = {TRUE}
    /\ LET t == tasks[p]
           m == MandelbrotBody(t.x, t.y, t.x2, t.y2, t.real, t.imaginary)
           j == JuliaBody(t.real, t.imaginary, fractal.c)
       IN  tasks' = [tasks EXCEPT ![p] =
                       IF fractal.kind = "Mandelbrot"
                       THEN [t EXCEPT !.x = m.x, !.y = m.y, !.x2 = m.x2,
                                      !.y2 = m.y2, !.iteration = @ + 1]
                       ELSE [t EXCEPT !.real = j.real,
                                      !.imaginary = j.imaginary,
                                      !.iteration = @ + 1]]
    /\ UNCHANGED <<args, pixels, pc, calls, r, y_pixel, x_pixel, locals, log,
                   first>>
    /\ UNCHANGED <<before, shell>>

\* Lines 58-80 and 109-153 in task p: the loop is left, the pixel coloured and
\* its slot written.
TaskWrite(p) ==
    /\ pc = "forked"
    /\ tasks[p].pc = "while"
    /\ TaskWhile(tasks[p]) = {FALSE}
    /\ LET t == tasks[p]
           rgb == IF fractal.kind = "Mandelbrot"
                  THEN MandelbrotColour(t.iteration, fractal.max_iterations,
                                        Norm(t.x, t.y))
                  ELSE JuliaColour(t.iteration)
           pixel_idx == PixelIdx(TaskRow(p), TaskCol(p), width)
       IN  /\ fractal.kind = "Mandelbrot" /\ t.iteration < fractal.max_iterations
                => IsPt(Norm(t.x, t.y))
           /\ SliceInBounds(pixels, pixel_idx)
           /\ pixels' = CopyFromSlice(pixels, pixel_idx, rgb)
           /\ log' = Append(log, [row |-> TaskRow(p), col |-> TaskCol(p),
                                  at |-> pixel_idx, rgb |-> rgb,
                                  count |-> t.iteration])
    /\ tasks' = [tasks EXCEPT ![p].pc = "done"]
    /\ UNCHANGED <<args, pc, calls, r, y_pixel, x_pixel, locals, first>>
    /\ UNCHANGED <<before, shell>>

\* Every task has written: the fan-out returns.
Join ==
    /\ pc = "forked"
    /\ \A p \in TaskIds : tasks[p].pc = "done"
    /\ pc' = "joined"
    /\ UNCHANGED <<args, pixels, calls, r, y_pixel, x_pixel, locals, log, first,
                   tasks>>
    /\ UNCHANGED <<before, shell>>

TasksNext ==
    \/ Draw
    \/ MandelbrotEnter
    \/ MandelbrotPixel
    \/ MandelbrotIterate
    \/ MandelbrotLeave
    \/ MandelbrotWrite
    \/ JuliaEnter
    \/ JuliaPixel
    \/ JuliaIterate
    \/ JuliaLeave
    \/ JuliaWrite
    \/ Fork
    \/ \E p \in TaskIds : TaskPixel(p)
    \/ \E p \in TaskIds : TaskIterate(p)
    \/ \E p \in TaskIds : TaskWrite(p)
    \/ Join

Tasks == TasksInit /\ [][TasksNext]_vars

\* The bytes of pixel p's slot.
SlotOf(p) == (4 * p + 1)..(4 * p + 4)

\* A step of task p.
StepOf(p) == pc = "forked" /\ pc' = "forked" /\ tasks'[p] # tasks[p]

\* C11: while the pixel tasks run, the parameters and r do not change; a step
\* of task p changes the locals of no other task and no byte outside p's own
\* slot, byte 4p..4p+3, which is the slot the task writes (slots of distinct
\* pixels are disjoint); and when all tasks are done, in whatever order they
\* were stepped, the buffer is the one the sequential row-major call returned.
C11_OrderIndependent ==
    /\ [](pc = "joined" => pixels = first)
    /\ [](pc = "forked" =>
            \A i \in 1..Len(log) :
              log[i].at = 4 * (log[i].row * width + log[i].col)
              /\ \A j \in 1..Len(log) : j # i => log[j].at # log[i].at)
    /\ [][pc = "forked" => UNCHANGED <<args, r>>]_vars
    /\ [][\A p \in TaskIds :
            StepOf(p) =>
              /\ \A q \in TaskIds \ {p} : tasks'[q] = tasks[q]
              /\ \A i \in 1..Len(pixels) :
                   pixels'[i] # pixels[i] => i \in SlotOf(p)]_vars

\* All four tasks have run, the last pixel's slot was written first and the
\* first pixel's last, and the frame is not one flat colour.
C11_Witness ==
    /\ pc = "joined"
    /\ width * height = 4
    /\ Len(log) = 4
    /\ log[1].at = 12
    /\ log[4].at = 0
    /\ pixels = first
    /\ Slot(pixels, 0) # Slot(pixels, 12)

\* A count that is a number in [0, max_iterations].
WithinBudget(count, max_iterations) ==
    /\ count.is = "finite"
    /\ count.lo >= 0
    /\ count.hi <= max_iterations * ONE

ValidVariant == fractal.max_iterations >= 1 /\ fractal.escape_radius[1] > 0

\* C12 (as claimed): for a variant with max_iterations >= 1 and
\* escape_radius > 0, the iteration count a kernel hands to its colouring is a
\* number in [0, max_iterations]: the Julia loop count, and the Mandelbrot
\* count after iteration + 1 - nu has been applied.
C12_CountWithinBudget ==
    ValidVariant =>
      /\ pc = "j_colour" => iteration \in 0..fractal.max_iterations
      /\ pc = "m_colour" =>
           WithinBudget(MandelbrotCount(iteration, fractal.max_iterations,
                                        Norm(x, y)),
                        fractal.max_iterations)

\* -------------------------------------- the Newton kernel and the gradients
\* gui.rs constructs Fractals::Newton { max_iterations, colour_gradient } and
\* lists COLOUR_GRADIENTS; the kernel and the gradient lookup themselves are
\* modelled from sections 3, 4.2, 4.5 and 7 of the specification.

\* An f64 that is NaN: the enclosure of no number.
NaN == <<1, 0>>
IsNaN(a) == a[1] > a[2]

\* a / b, rounded outwards, for a divisor that is certainly positive.
FDiv(a, b) ==
    LET q == {<<(a[i] * ONE) \div b[j], -((-(a[i] * ONE)) \div b[j])>> :
                 i \in 1..2, j \in 1..2}
    IN  <<CHOOSE m \in {e[1] : e \in q} : \A e \in q : m <= e[1],
          CHOOSE m \in {e[2] : e \in q} : \A e \in q : m >= e[2]>>

Three == Pt(3 * ONE)

\* f'(z) = 3z^2 and |f'(z)|^2 for z = re + i im.
NewtonDerivative(re, im) ==
    <<FMul(Three, FSub(FMul(re, re), FMul(im, im))),
      FMul(Three, FMul(FMul(Two, re), im))>>

NewtonDenominator(re, im) ==
    LET d == NewtonDerivative(re, im)
    IN  FAdd(FMul(d[1], d[1]), FMul(d[2], d[2]))

\* z - f(z)/f'(z) with f(z) = z^3 - 1.  A derivative of exactly zero is not
\* guarded: the quotient is invalid and z becomes NaN, and stays NaN.
NewtonUpdate(re, im) ==
    IF IsNaN(re) \/ IsNaN(im) \/ NewtonDenominator(re, im) = Zero
    THEN [real |-> NaN, imaginary |-> NaN]
    ELSE LET sq  == <<FSub(FMul(re, re), FMul(im, im)), FMul(FMul(Two, re), im)>>
             f   == <<FSub(FSub(FMul(sq[1], re), FMul(sq[2], im)), Pt(ONE)),
                      FAdd(FMul(sq[1], im), FMul(sq[2], re))>>
             d   == NewtonDerivative(re, im)
             den == NewtonDenominator(re, im)
             qre == FDiv(FAdd(FMul(f[1], d[1]), FMul(f[2], d[2])), den)
             qim == FDiv(FSub(FMul(f[2], d[1]), FMul(f[1], d[2])), den)
         IN  [real |-> FSub(re, qre), imaginary |-> FSub(im, qim)]

\* The update has one outcome the enclosures determine.
NewtonUpdateDecided(re, im) ==
    \/ IsNaN(re)
    \/ IsNaN(im)
    \/ NewtonDenominator(re, im) = Zero
    \/ NewtonDenominator(re, im)[1] > 0

\* The three cube roots of unity; sqrt(3)/2 lies between 886 and 887 grid steps.
NewtonRoots ==
    {<<Pt(ONE), Zero>>,
     <<Pt(-(ONE \div 2)), <<886, 887>>>>,
     <<Pt(-(ONE \div 2)), <<-887, -886>>>>}

\* The values `|a - b| < tolerance` can take, for a tolerance above 0 and
\* below one grid step (1e-6); a comparison with NaN is false.
NewtonWithin(a, b) ==
    IF IsNaN(a)
    THEN {FALSE}
    ELSE LET d  == FSub(a, b)
             lo == IF d[1] <= 0 /\ 0 <= d[2] THEN 0
                   ELSE IF d[1] > 0 THEN d[1] ELSE -d[2]
             hi == IF -d[1] > d[2] THEN -d[1] ELSE d[2]
         IN  {o \in BOOLEAN : IF o THEN lo < 1 ELSE hi > 0}

\* The values "z is componentwise within the tolerance of some root" can take.
NewtonConverged(re, im) ==
    LET at(root) == {p /\ q : p \in NewtonWithin(re, root[1]),
                              q \in NewtonWithin(im, root[2])}
    IN  {\E root \in NewtonRoots : hit[root] :
           hit \in {h \in [NewtonRoots -> BOOLEAN] :
                      \A root \in NewtonRoots : h[root] \in at(root)}}

\* Mutant: only the iteration budget stops the loop.
NewtonWhile_BudgetOnly(re, im, it, max_iterations) ==
    {it < max_iterations}

\* The values the loop condition "budget left and not converged" can take.
NewtonWhile(re, im, it, max_iterations) ==
    {it < max_iterations /\ ~c : c \in NewtonConverged(re, im)}

\* The viewport mapping, the same for every kernel (section 4.1).
NewtonPlane(xp, yp, w, h, zm, ox, oy) ==
    <<FAdd(FMul(FromInt(xp - IDiv(w, 2)), zm), ox),
      FAdd(FMul(FromInt(yp - IDiv(h, 2)), zm), oy)>>

\* gui.rs 275: the names the settings panel lists (the specification names
\* these four of the eight).
COLOUR_GRADIENTS == {"Magma", "Viridis", "Turbo", "Sinebow"}

\* The ramp an unrecognised name falls back to.
DefaultGradient == "Magma"

\* Mutant: an unrecognised name is looked up as it is.
ResolveGradient_AsGiven(id) == id

\* The ramp a gradient name resolves to.
ResolveGradient(id) ==
    IF id \in COLOUR_GRADIENTS THEN id ELSE DefaultGradient

\* gradient_lookup(id, n / d): the ramp library is a black box, so the RGBA it
\* returns is named by ramp, fraction and channel.
GradientLookup(id, n, d) ==
    [k \in 1..4 |-> <<ResolveGradient(id), n, d, k>>]

\* The pixel's slot receives the RGBA of the ramp.
CopyRgba(buf, idx, rgba) ==
    [i \in 1..Len(buf) |->
        IF i \in (idx + 1)..(idx + 4) THEN rgba[i - idx] ELSE buf[i]]

EngineVariants ==
    {[kind |-> "Newton", max_iterations |-> m, colour_gradient |-> g] :
        m \in 1..MaxIter, g \in COLOUR_GRADIENTS \cup {"Unlisted"}}

EngineOffsets == {Zero, Pt(ONE)}

EngineInit ==
    /\ fractal \in EngineVariants
    /\ width \in 1..MaxDim
    /\ height \in 1..MaxDim
    /\ zoom \in Zooms
    /\ offset_x \in EngineOffsets
    /\ offset_y \in EngineOffsets
    /\ pixels = Filled(4 * width * height, 0)
    /\ InitLocals

\* draw on a Newton variant.
NewtonDraw ==
    /\ pc \in {"idle", "returned"}
    /\ calls < MaxCalls
    /\ calls' = calls + 1
    /\ pc' = "newton"
    /\ log' = <<>>
    /\ UNCHANGED <<args, pixels, r, y_pixel, x_pixel, locals, first>>
    /\ UNCHANGED extra

\* Between two calls the caller hands over the variant with another gradient.
Regradient ==
    /\ pc = "returned"
    /\ calls = 1
    /\ before = ""
    /\ \E g \in COLOUR_GRADIENTS :
         fractal' = [fractal EXCEPT !.colour_gradient = g]
    /\ before' = fractal.colour_gradient
    /\ UNCHANGED <<width, height, zoom, offset_x, offset_y, pixels, pc, calls,
                   r, y_pixel, x_pixel, locals, log, first, tasks, shell>>

NewtonEnter ==
    /\ pc = "newton"
    /\ UNCHANGED <<args, pixels, calls, r, log>>
    /\ EnterLoops("n_pixel")
    /\ UNCHANGED extra

\* z starts at the pixel's plane coordinate.
NewtonPixel ==
    /\ pc = "n_pixel"
    /\ LET p == NewtonPlane(x_pixel, y_pixel, width, height, zoom,
                            offset_x, offset_y)
       IN  /\ real' = p[1]
           /\ imaginary' = p[2]
    /\ iteration' = 0
    /\ pc' = "n_while"
    /\ UNCHANGED <<args, pixels, calls, r, y_pixel, x_pixel, x, y, x2, y2, log,
                   first>>
    /\ UNCHANGED extra

\* One Newton update.
NewtonIterate ==
    /\ pc = "n_while"
    /\ NewtonWhile(real, imaginary, iteration, fractal.max_iterations) = {TRUE}
    /\ NewtonUpdateDecided(real, imaginary)
    /\ LET z == NewtonUpdate(real, imaginary)
       IN  /\ real' = z.real
           /\ imaginary' = z.imaginary
    /\ iteration' = iteration + 1
    /\ UNCHANGED <<args, pixels, pc, calls, r, y_pixel, x_pixel, x, y, x2, y2,
                   log, first>>
    /\ UNCHANGED extra

\* Converged, or the budget is spent: the loop is left.
NewtonLeave ==
    /\ pc = "n_while"
    /\ NewtonWhile(real, imaginary, iteration, fractal.max_iterations) = {FALSE}
    /\ pc' = "n_colour"
    /\ UNCHANGED <<args, pixels, calls, r, y_pixel, x_pixel, locals, log, first>>
    /\ UNCHANGED extra

\* The fraction iteration / max_iterations is looked up in the gradient and the
\* RGBA written to the pixel's slot.
NewtonWrite ==
    /\ pc = "n_colour"
    /\ LET rgba == GradientLookup(fractal.colour_gradient, iteration,
                                  fractal.max_iterations)
           pixel_idx == PixelIdx(y_pixel, x_pixel, width)
       IN  /\ SliceInBounds(pixels, pixel_idx)
           /\ pixels' = CopyRgba(pixels, pixel_idx, rgba)
           /\ log' = Append(log, [row |-> y_pixel, col |-> x_pixel,
                                  at |-> pixel_idx, rgb |-> rgba,
                                  count |-> iteration])
    /\ Advance("n_pixel")
    /\ UNCHANGED <<args, calls, r>>
    /\ UNCHANGED extra

EngineNext ==
    \/ NewtonDraw
    \/ Regradient
    \/ NewtonEnter
    \/ NewtonPixel
    \/ NewtonIterate
    \/ NewtonLeave
    \/ NewtonWrite

Engine == EngineInit /\ [][EngineNext]_vars

HereNewton ==
    NewtonPlane(x_pixel, y_pixel, width, height, zoom, offset_x, offset_y)

\* C13: in the Newton kernel iteration stays within 0..max_iterations; a z
\* that is within the tolerance of a root is not updated again, the loop is
\* left at once; when the loop is left before max_iterations, z is within the
\* tolerance of a root; and the pixel at plane coordinate (1, 0) leaves the
\* loop with iteration = 0, which is below max_iterations.
C13_NewtonStops ==
    /\ [](pc \in {"n_while", "n_colour"} =>
            iteration \in 0..fractal.max_iterations)
    /\ [](pc = "n_colour" /\ iteration < fractal.max_iterations =>
            NewtonConverged(real, imaginary) = {TRUE})
    /\ [](pc = "n_colour" /\ HereNewton = <<Pt(ONE), Zero>> =>
            iteration = 0 /\ iteration < fractal.max_iterations)
    /\ [][pc = "n_while" /\ NewtonConverged(real, imaginary) = {TRUE} =>
            pc' = "n_colour" /\ iteration' = iteration]_vars

\* The pixel at (-0.5, 0) has reached the root (1, 0) after one update and
\* left the loop with two iterations to spare.
C13_Witness ==
    /\ pc = "n_colour"
    /\ HereNewton = <<Pt(-(ONE \div 2)), Zero>>
    /\ real = Pt(ONE)
    /\ imaginary = Zero
    /\ iteration = 1
    /\ fractal.max_iterations = 3

C13_WitnessAtRoot ==
    /\ pc = "n_colour"
    /\ HereNewton = <<Pt(ONE), Zero>>
    /\ iteration = 0
    /\ fractal.max_iterations = 1

Abs(n) == IF n < 0 THEN -n ELSE n

RECURSIVE GCD(_, _)
GCD(a, b) == IF b = 0 THEN a ELSE GCD(b, a % b)

RECURSIVE Twos(_)
Twos(n) == IF n % 2 = 0 THEN 1 + Twos(n \div 2) ELSE 0

QZero == [p |-> 0, q |-> 1, e |-> 0]

QNorm(p, q, e) ==
    IF p = 0 THEN QZero
    ELSE LET g == GCD(Abs(p), q)
             p1 == p \div g
             q1 == q \div g
             tp == Twos(Abs(p1))
             tq == Twos(q1)
         IN  [p |-> (Abs(p1) \div 2^tp) * (IF p < 0 THEN -1 ELSE 1),
              q |-> q1 \div 2^tq,
              e |-> e + tp - tq]

QInt(n) == QNorm(n, 1, 0)
QFrac(n, d) == QNorm(n, d, 0)
QNeg(a) == [a EXCEPT !.p = -a.p]
QMul(a, b) == QNorm(a.p * b.p, a.q * b.q, a.e + b.e)
QDiv(a, b) ==
    QNorm(a.p * b.q * (IF b.p < 0 THEN -1 ELSE 1), a.q * Abs(b.p), a.e - b.e)
QAdd(a, b) ==
    IF a.p = 0 THEN b
    ELSE IF b.p = 0 THEN a
    ELSE LET m == IF a.e < b.e THEN a.e ELSE b.e
         IN  QNorm(a.p * 2^(a.e - m) * b.q + b.p * 2^(b.e - m) * a.q,
                   a.q * b.q, m)
QSub(a, b) == QAdd(a, QNeg(b))
QPositive(a) == a.p > 0
QAbs(a) == [a EXCEPT !.p = Abs(a.p)]
QLe(a, b) == ~QPositive(QSub(a, b))

\* |a| <= 2^-1075, for a # 0.
TooSmall(a) ==
    LET k == a.e + 1075
    IN  IF k > 30 THEN FALSE
        ELSE IF k < -30 THEN TRUE
        ELSE IF k >= 0 THEN Abs(a.p) <= a.q \div 2^k
        ELSE (Abs(a.p) + 2^(-k) - 1) \div 2^(-k) <= a.q

\* An f64 product: the exact one, or 0.0 when it underflows.
FProduct(a, b) ==
    LET c == QMul(a, b)
    IN  IF c.p # 0 /\ TooSmall(c) THEN QZero ELSE c

INIT_ZOOM == QFrac(3, 1000)
zoom_amount == QInt(5)

\* ---- Gui::ui, the settings panel ----

\* The components of Julia's c are counted in units of 10^-5.
CUnit == 100000

Kinds == {"Mandelbrot", "Julia", "Newton"}

\* The value a combo entry or the Reset button constructs.
Fresh(kind, gradient) ==
    CASE kind = "Mandelbrot" ->
           [kind |-> "Mandelbrot", max_iterations |-> 100,
            escape_radius |-> Two, colour_gradient |-> gradient]
      [] kind = "Julia" ->
           [kind |-> "Julia", max_iterations |-> 100, escape_radius |-> Two,
            c |-> <<-70000, 27015>>, colour_gradient |-> gradient]
      [] kind = "Newton" ->
           [kind |-> "Newton", max_iterations |-> 100,
            colour_gradient |-> gradient]

Clamp(v, lo, hi) == IF v < lo THEN lo ELSE IF v > hi THEN hi ELSE v

Slider_Unclamped(raw, lo, hi) == raw

\* egui::Slider::new(value, lo..=hi).clamp_to_range(true): the value the user
\* drags to or types is clamped into the range before it is stored.
Slider(raw, lo, hi) == Clamp(raw, lo, hi)

\* The sliders shown for the variant, applied to the one the user moved.
Slide(f, which, raw) ==
    CASE which = "max_iterations" ->
           [f EXCEPT !.max_iterations = Slider(raw, 1, 10000)]
      [] which = "escape_radius" /\ f.kind \in {"Mandelbrot", "Julia"} ->
           [f EXCEPT !.escape_radius = Pt(Slider(raw, ONE, 10 * ONE))]
      [] which = "c.0" /\ f.kind = "Julia" ->
           [f EXCEPT !.c[1] = Slider(raw, -(3 * CUnit) \div 2, (3 * CUnit) \div 2)]
      [] which = "c.1" /\ f.kind = "Julia" ->
           [f EXCEPT !.c[2] = Slider(raw, -(3 * CUnit) \div 2, (3 * CUnit) \div 2)]
      [] OTHER -> f

RaiseReset_Never(reset, display_name, kind) == reset

\* flags.reset |= display_name != "<the kind matched>"
RaiseReset(reset, display_name, kind) == reset \/ display_name # kind

\* One pass of Gui::ui over the variant f and the flags fl with the Gui's
\* window_open, under one interaction: in.header is what the collapsing header
\* shows in this pass ("closed": no body; "opening": body, not yet fully open;
\* "open"), in.op the widget the user acted on and in.arg its value.
Ui(f, fl, open, in) ==
    LET display_name == f.kind
        f1 == IF in.op = "select" THEN Fresh(in.arg[1], "Magma") ELSE f
        old_colour == f1.colour_gradient
        f2 == IF in.op = "gradient"
              THEN [f1 EXCEPT !.colour_gradient = in.arg[1]] ELSE f1
        f3 == IF in.op = "slide" THEN Slide(f2, in.arg[1], in.arg[2]) ELSE f2
        change == f3 # f2
        reset == RaiseReset(fl.reset, display_name, f3.kind)
        generate == fl.generate_fractal \/ change \/ reset
                      \/ old_colour # f3.colour_gradient
        clicked == open /\ in.op = "reset"
        f4 == IF clicked THEN Fresh(f3.kind, f3.colour_gradient) ELSE f3
    IN  IF in.header = "closed"
        THEN [fractal |-> f, flags |-> fl, window_open |-> FALSE]
        ELSE [fractal |-> f4,
              flags |-> [reset |-> reset \/ clicked,
                         generate_fractal |-> generate \/ clicked],
              window_open |-> in.header = "open"]

Headers == {"closed", "opening", "open"}

\* What the user can type into or drag each slider to.
SliderRaws ==
    ({"max_iterations"} \X {0, 10001})
      \cup ({"escape_radius"} \X {-ONE, 11 * ONE})
      \cup ({"c.0", "c.1"} \X {-2 * CUnit})

NoOp == [header |-> "open", op |-> "none", arg |-> <<"", 0>>]

PanelInputs ==
    {[header |-> h, op |-> o[1], arg |-> o[2]] :
       h \in Headers,
       o \in {<<"none", <<"", 0>>>>, <<"reset", <<"", 0>>>>}
               \cup {<<"select", <<k, 0>>>> : k \in Kinds}
               \cup {<<"gradient", <<"Viridis", 0>>>>}
               \cup {<<"slide", s>> : s \in SliderRaws}}

\* ---- main: the buffers ----

MIN_WIDTH == 400
MIN_HEIGHT == 300

\* A frame buffer of len bytes: frame names what its bytes are, <<>> for all
\* zero and otherwise the viewport arguments of the draw call that wrote them;
\* box says whether draw_zoom_box has drawn over them.
Blank(len) == [len |-> len, frame |-> <<>>, box |-> FALSE]

\* fractal.draw(pixels.frame_mut(), width, height, zoom, offset_x, offset_y)
\* on a buffer that holds at least 4 * width * height bytes.
Render(buf, f, w, h, z, ox, oy) ==
    [len |-> buf.len, frame |-> <<w, h, z, ox, oy>>, box |-> FALSE]

\* draw panics on the first slot past the end of a buffer that is too short.
DrawPanics(buf, w, h) == buf.len < 4 * w * h

ZoomBox(buf) == [buf EXCEPT !.box = TRUE]

\* ---- main: the update step, lines 86-199 ----

window_position == <<10, 10>>
window_open_size == <<300, 200>>
window_closed_size == <<85, 35>>

get_window_size(open) == IF open THEN window_open_size ELSE window_closed_size

mouse_in_ui_window(at, open) ==
    /\ at[1] > window_position[1]
    /\ at[1] < window_position[1] + get_window_size(open)[1]
    /\ at[2] > window_position[2]
    /\ at[2] < window_position[2] + get_window_size(open)[2]

\* 1.0 + (0.1 * zoom_amount * -scroll.signum())
ZoomFactor(scroll) ==
    QAdd(QInt(1),
         QMul(QMul(QFrac(1, 10), zoom_amount),
              QInt(IF scroll > 0 THEN -1 ELSE 1)))

\* 0.5 * (zoom / INIT_ZOOM)
PanStep(z) == QMul(QFrac(1, 2), QDiv(z, INIT_ZOOM))

\* The branch of the else-if chain an input takes.
Branch(in) ==
    IF in.scroll # 0 THEN "scroll"
    ELSE IF in.mouse = "pressed" THEN "pressed"
    ELSE IF in.mouse = "held" THEN "held"
    ELSE IF in.mouse = "released" THEN "released"
    ELSE IF in.key \in {"W", "Right"} THEN "W"
    ELSE IF in.key \in {"S", "Down"} THEN "S"
    ELSE IF in.key \in {"A", "Left"} THEN "A"
    ELSE IF in.key \in {"D", "Right"} THEN "D"
    ELSE IF in.scale_factor THEN "scale_factor"
    ELSE IF in.resized # <<0, 0>> THEN "resized"
    ELSE "none"

\* The left button as the input helper reports it in this step.
ButtonFits(in) ==
    /\ in.mouse = "pressed" => ~mouse_down
    /\ in.mouse = "none" => ~mouse_down
    /\ in.mouse \in {"held", "released"} => mouse_down

\* The viewport a release outside the panel leaves.
ReleaseOffset(off, start, end, size, z) ==
    LET box == Abs(start - end)
        top_left == Min2(start, end)
    IN  QAdd(off, FProduct(QSub(QAdd(QInt(top_left), QFrac(box, 2)),
                                QFrac(size, 2)), z))

ReleaseZoom(z, w, h) ==
    LET box_area == Abs(drag_select_start[1] - drag_select_end[1])
                      * Abs(drag_select_start[2] - drag_select_end[2])
    IN  IF box_area >= 100
        THEN FProduct(z, QMul(QFrac(box_area, w * h), QInt(10)))
        ELSE z

\* How far the model lets the viewport move: cap halvings or doublings of the
\* initial zoom, and offsets of magnitude at most MaxOffset / 2.
InReach(z, ox, oy, cap) ==
    /\ z.p = 0 \/ Abs(z.e - INIT_ZOOM.e) <= cap
    /\ QLe(QAbs(ox), QFrac(MaxOffset, 2))
    /\ QLe(QAbs(oy), QFrac(MaxOffset, 2))

\* One pass through `if input.update(&event) { ... }` with the input in. The
\* window already has the size of a resize the step reports.
Update(in, cap) ==
    LET b == Branch(in)
        w == IF in.resized # <<0, 0>> THEN in.resized[1] ELSE width
        h == IF in.resized # <<0, 0>> THEN in.resized[2] ELSE height
        in_ui == mouse_in_ui_window(in.at, window_open)
        step == PanStep(zoom)
    IN  /\ pc = "running"
        /\ ButtonFits(in)
        /\ in.resized # <<width, height>>
        /\ b \in {"pressed", "released"} =>
             pixels.len = freeze_frame.len
        /\ width' = w
        /\ height' = h
        /\ mouse_down' = (in.mouse \in {"pressed", "held"})
        /\ zoom' = CASE b = "scroll" -> FProduct(zoom, ZoomFactor(in.scroll))
                     [] b = "released" /\ ~in_ui -> ReleaseZoom(zoom, w, h)
                     [] OTHER -> zoom
        /\ offset_x' =
             CASE b = "released" /\ ~in_ui ->
                    ReleaseOffset(offset_x, drag_select_start[1],
                                  drag_select_end[1], w, zoom)
               [] b = "A" -> QSub(offset_x, step)
               [] b = "D" -> QAdd(offset_x, step)
               [] OTHER -> offset_x
        /\ offset_y' =
             CASE b = "released" /\ ~in_ui ->
                    ReleaseOffset(offset_y, drag_select_start[2],
                                  drag_select_end[2], h, zoom)
               [] b = "W" -> QSub(offset_y, step)
               [] b = "S" -> QAdd(offset_y, step)
               [] OTHER -> offset_y
        /\ InReach(zoom', offset_x', offset_y', cap)
        /\ flag_generate_new_fractal' =
             IF \/ b \in {"scroll", "W", "S", "A", "D"}
                \/ b = "released" /\ ~in_ui
             THEN TRUE ELSE flag_generate_new_fractal
        /\ flag_render_drag_select' =
             CASE b = "pressed" /\ ~in_ui -> TRUE
               [] b = "released" -> FALSE
               [] OTHER -> flag_render_drag_select
        /\ drag_select_start' =
             IF b = "pressed" /\ ~in_ui THEN in.at ELSE drag_select_start
        /\ drag_select_end' =
             CASE b = "pressed" /\ ~in_ui -> in.at
               [] b = "held" ->
                    <<Clamp(in.at[1], 0, w), Clamp(in.at[2], 0, h - 1)>>
               [] OTHER -> drag_select_end
        /\ freeze_frame' =
             CASE b = "pressed" \/ (b = "released" /\ in_ui) -> pixels
               [] b = "resized" -> Blank(4 * w * h)
               [] OTHER -> freeze_frame
        /\ pixels' = IF b = "resized"
                     THEN [pixels EXCEPT !.len = 4 * w * h] ELSE pixels
        /\ event' = [handler |-> "update", in |-> in]
        /\ UNCHANGED <<fractal, flags, flag_fractal_change, window_open, pc,
                       calls, r, y_pixel, x_pixel, locals, log, first, tasks,
                       before>>

\* ---- main: Event::RedrawRequested, lines 211-261 ----

\* framework.prepare hands the panel the variant and the caller's flags. The
\* pass raises the bool main passes, flag_fractal_change, only when it raised
\* one of the flags; whether it does then is left open.
Raised(in) ==
    LET u == Ui(fractal, [reset |-> FALSE, generate_fractal |-> FALSE],
                window_open, in)
    IN  u.flags.reset \/ u.flags.generate_fractal

Redraw(in) ==
    LET drag == flag_render_drag_select
        gen == ~drag /\ (flag_generate_new_fractal \/ flag_fractal_change)
        moved == /\ Abs(drag_select_start[1] - drag_select_end[1]) > 10
                 /\ Abs(drag_select_start[2] - drag_select_end[2]) > 10
        change == gen /\ flag_fractal_change
        z == IF change THEN INIT_ZOOM ELSE zoom
        ox == IF change THEN QZero ELSE offset_x
        oy == IF change THEN QZero ELSE offset_y
        drawn == IF drag
                 THEN IF moved THEN ZoomBox(freeze_frame) ELSE freeze_frame
                 ELSE IF gen
                      THEN Render(pixels, fractal, width, height, z, ox, oy)
                      ELSE pixels
        frozen == IF gen THEN drawn ELSE freeze_frame
        u == Ui(fractal, flags, window_open, in)
    IN  /\ pc = "running"
        /\ IF \/ pixels.len # freeze_frame.len
              \/ gen /\ DrawPanics(pixels, width, height)
           THEN /\ pc' = "panicked"
                /\ event' = [handler |-> "redraw", ui |-> in, drew |-> FALSE,
                             display_name |-> fractal.kind]
                /\ UNCHANGED <<fractal, zoom, offset_x, offset_y, pixels,
                               freeze_frame, flags, window_open,
                               flag_fractal_change, flag_generate_new_fractal>>
           ELSE /\ zoom' = z
                /\ offset_x' = ox
                /\ offset_y' = oy
                /\ freeze_frame' = frozen
                /\ pixels' = IF ~flag_generate_new_fractal /\ ~drag
                             THEN frozen ELSE drawn
                /\ fractal' = u.fractal
                /\ flags' = u.flags
                /\ window_open' = u.window_open
                /\ flag_fractal_change' \in
                     {flag_fractal_change /\ ~gen}
                       \cup (IF Raised(in) THEN {TRUE} ELSE {})
                /\ flag_generate_new_fractal' = FALSE
                /\ event' = [handler |-> "redraw", ui |-> in, drew |-> gen,
                             display_name |-> fractal.kind]
                /\ UNCHANGED pc
        /\ UNCHANGED <<width, height, drag_select_start, drag_select_end,
                       flag_render_drag_select, mouse_down, calls, r, y_pixel,
                       x_pixel, locals, log, first, tasks, before>>

\* ---- main up to event_loop.run, lines 24-83 ----

Sizes == {<<MIN_WIDTH, MIN_HEIGHT>>, <<2 * MIN_WIDTH, 2 * MIN_HEIGHT>>}

AppInit ==
    /\ width = MIN_WIDTH
    /\ height = MIN_HEIGHT
    /\ fractal = [kind |-> "Julia", max_iterations |-> 100,
                  escape_radius |-> Two, c |-> <<-80000, 15600>>,
                  colour_gradient |-> DefaultGradient]
    /\ zoom = INIT_ZOOM
    /\ offset_x = QZero
    /\ offset_y = QZero
    /\ pixels = Blank(4 * width * height)
    /\ freeze_frame = pixels
    /\ drag_select_start = <<0, 0>>
    /\ drag_select_end = <<0, 0>>
    /\ flag_render_drag_select = FALSE
    /\ flag_generate_new_fractal = TRUE
    /\ flag_fractal_change = TRUE
    /\ flags = [reset |-> FALSE, generate_fractal |-> FALSE]
    /\ window_open = TRUE
    /\ mouse_down = FALSE
    /\ event = [handler |-> "main"]
    /\ pc = "running"
    /\ calls = 0
    /\ r = Zero
    /\ y_pixel = 0
    /\ x_pixel = 0
    /\ real = Zero
    /\ imaginary = Zero
    /\ x = Zero
    /\ y = Zero
    /\ x2 = Zero
    /\ y2 = Zero
    /\ iteration = 0
    /\ log = <<>>
    /\ first = <<>>
    /\ tasks = <<>>
    /\ before = ""

\* ---- The settings panel at work: redraws under every interaction ----

Quiet == [scroll |-> 0, mouse |-> "none", at |-> <<320, 20>>, key |-> "",
          scale_factor |-> FALSE, resized |-> <<0, 0>>]

PanelNext == \E in \in PanelInputs : Redraw(in)

Panel == AppInit /\ [][PanelNext]_vars

\* What draw needs of a variant the panel hands it.
PanelValid(f) ==
    /\ f.max_iterations >= 1
    /\ f.kind \in {"Mandelbrot", "Julia"} => f.escape_radius[1] > 0

\* C15: whatever the user does in the settings panel (select a type, move a
\* slider to or past either end of its range, press Reset), the variant keeps
\* max_iterations >= 1 and, for Mandelbrot and Julia, escape_radius > 0; and
\* every redraw that calls draw calls it on such a variant.
C15_PanelKeepsVariantValid ==
    /\ [](pc = "running" => PanelValid(fractal))
    /\ [][event'.handler = "redraw" /\ event'.drew => PanelValid(fractal)]_vars

\* A redraw drew a Mandelbrot variant whose sliders had been pushed below
\* their ranges and stopped at 1 and 1.0.
C15_Witness ==
    /\ event.handler = "redraw"
    /\ event.drew
    /\ event.ui.op = "none"
    /\ fractal.kind = "Mandelbrot"
    /\ fractal.max_iterations = 1
    /\ fractal.escape_radius = Pt(ONE)

\* C16: a pass of the panel in which the user picks a type other than the
\* active one, or presses Reset while the panel is open, leaves a variant equal
\* to the freshly built value of that type (max_iterations 100, escape_radius
\* 2.0, c = (-0.7, 0.27015) for Julia) and leaves both flags.reset and
\* flags.generate_fractal set.
C16_FreshOnChange ==
    [][/\ event'.handler = "redraw"
       /\ pc' = "running"
       /\ event'.ui.header # "closed"
       /\ \/ event'.ui.op = "select" /\ event'.ui.arg[1] # fractal.kind
          \/ event'.ui.op = "reset" /\ window_open
       => /\ fractal'.kind = IF event'.ui.op = "select"
                             THEN event'.ui.arg[1] ELSE fractal.kind
          /\ fractal' = Fresh(fractal'.kind, fractal'.colour_gradient)
          /\ fractal'.max_iterations = 100
          /\ fractal'.kind # "Newton" => fractal'.escape_radius = Two
          /\ fractal'.kind = "Julia" => fractal'.c = <<-70000, 27015>>
          /\ flags'.reset
          /\ flags'.generate_fractal]_vars

\* The user switched from Julia to Newton.
C16_Witness ==
    /\ event.handler = "redraw"
    /\ event.ui.op = "select"
    /\ event.display_name = "Julia"
    /\ fractal = Fresh("Newton", "Magma")
    /\ flags.reset
    /\ flags.generate_fractal
    /\ ~flag_generate_new_fractal

\* ---- The wheel turned one way: update steps that each report a scroll ----
\* (a redraw between them changes zoom only while flag_fractal_change is up,
\* and then to INIT_ZOOM, the value these steps start from)

DeepNext == Update([Quiet EXCEPT !.scroll = 1], MaxDeep)

Deep == AppInit /\ [][DeepNext]_vars

\* C17 (as claimed): whatever scroll, drag release, pan key and fractal change
\* events the loop has handled, zoom is strictly positive.
C17_ZoomStaysPositive == pc = "running" => QPositive(zoom)

\* ---- The event loop under mouse, wheel, key and resize inputs ----

\* Cursor positions: where the button goes down, where the drag ends outside
\* the panel, and a point inside the open panel.
PressAt == <<320, 20>>
DragTo == <<350, 220>>
InsidePanel == <<200, 120>>

LoopInputs ==
    {Quiet, [Quiet EXCEPT !.scroll = -1], [Quiet EXCEPT !.scroll = 1],
     [Quiet EXCEPT !.scroll = 1, !.mouse = "held"],
     [Quiet EXCEPT !.key = "D", !.mouse = "held"]}
      \cup {[Quiet EXCEPT !.mouse = "pressed", !.at = a] :
              a \in {PressAt, InsidePanel}}
      \cup {[Quiet EXCEPT !.mouse = m, !.at = a] :
              m \in {"held", "released"}, a \in {DragTo, InsidePanel}}

LoopNext ==
    \/ \E in \in LoopInputs : Update(in, MaxZoomSteps)
    \/ Redraw(NoOp)

Loop == AppInit /\ [][LoopNext]_vars

\* The frame draw writes for the viewport main holds now.
CurrentView == <<width, height, zoom, offset_x, offset_y>>

\* C18 (as claimed): the regenerate flag goes down only in a redraw that
\* called draw, and after every redraw that ran with no drag selection active
\* the pixel buffer holds the frame drawn for the current zoom and offsets.
C18_RequestNeverDropped ==
    /\ [][flag_generate_new_fractal /\ ~flag_generate_new_fractal'
            => event'.handler = "redraw" /\ event'.drew]_vars
    /\ [](event.handler = "redraw" /\ pc = "running"
            /\ ~flag_render_drag_select
            => pixels.frame = CurrentView)

\* ---- The event loop under resizes and the wheel ----

ResizeInputs ==
    {Quiet, [Quiet EXCEPT !.scroll = 1], [Quiet EXCEPT !.scale_factor = TRUE]}
      \cup {[Quiet EXCEPT !.resized = s, !.scroll = d] :
              s \in Sizes, d \in {0, 1}}

ResizingNext ==
    \/ \E in \in ResizeInputs : Update(in, MaxZoomSteps)
    \/ Redraw(NoOp)

Resizing == AppInit /\ [][ResizingNext]_vars

\* C19 (as claimed): an update step that handles a resize leaves the pixel
\* buffer and the freeze frame both 4 * width * height bytes long for the new
\* size, and the redraw that follows it leaves in the pixel buffer a frame draw
\* wrote at the new width and height.
C19_ResizeThenFractal ==
    /\ [][event'.handler = "update" /\ Branch(event'.in) = "resized"
            => /\ pixels'.len = 4 * width' * height'
               /\ freeze_frame'.len = 4 * width' * height']_vars
    /\ [][/\ event.handler = "update"
          /\ Branch(event.in) = "resized"
          /\ event'.handler = "redraw"
          => /\ pixels'.frame # <<>>
             /\ pixels'.frame[1] = width'
             /\ pixels'.frame[2] = height']_vars

\* ---- The event loop under the keyboard and the wheel ----

Keys == {"W", "A", "S", "D", "Up", "Left", "Down", "Right"}

KeyInputs ==
    {Quiet, [Quiet EXCEPT !.scroll = -1], [Quiet EXCEPT !.scroll = 1]}
      \cup {[Quiet EXCEPT !.key = k] : k \in Keys}

KeysNext ==
    \/ \E in \in KeyInputs : Update(in, MaxZoomSteps)
    \/ Redraw(NoOp)

KeyLoop == AppInit /\ [][KeysNext]_vars

\* The direction the claim gives each pan key, as steps along x and y.
ClaimedPan ==
    [k \in {"A", "Left", "D", "Right", "W", "S", "Down"} |->
       CASE k \in {"A", "Left"} -> <<-1, 0>>
         [] k \in {"D", "Right"} -> <<1, 0>>
         [] k = "W" -> <<0, -1>>
         [] k \in {"S", "Down"} -> <<0, 1>>]

\* C20 (as claimed): an update step whose only input is a pan key moves one
\* offset by 0.5 * (zoom / INIT_ZOOM) in the key's direction (A, Left: x down;
\* D, Right: x up; W: y down; S, Down: y up), leaves the other offset and zoom
\* as they were, and raises the regenerate flag.
C20_PanKeys ==
    [][/\ event'.handler = "update"
       /\ event'.in.scroll = 0
       /\ event'.in.mouse = "none"
       /\ event'.in.key \in DOMAIN ClaimedPan
       => LET d == ClaimedPan[event'.in.key]
          IN  /\ offset_x' = QAdd(offset_x, QMul(QInt(d[1]), PanStep(zoom)))
              /\ offset_y' = QAdd(offset_y, QMul(QInt(d[2]), PanStep(zoom)))
              /\ zoom' = zoom
              /\ flag_generate_new_fractal']_vars

====
